---------------------------- MODULE Spec2Model ----------------------------
(***************************************************************************)
(* Model of bci/model_extract_adv.py: the k-fold orchestrator fit(), the   *)
(* Training Step train() with its adversarial generator PGD(), and the     *)
(* Evaluation Step test().                                                 *)
(*                                                                         *)
(* The module describes three entry points over one set of variables:      *)
(*   - the script's __main__ block running fit() (train() is one action    *)
(*     there: its only effect on fit()'s state is the student's new        *)
(*     parameters and the optimizer's step count);                         *)
(*   - train() on one loader, batch by batch, with PGD() unrolled into     *)
(*     its forward and perturbation steps;                                 *)
(*   - test() on an arbitrary small dataset, batch size and model.         *)
(* The control positions (pc) of the three are disjoint.                   *)
(*                                                                         *)
(* Abstractions.  The student and teacher networks are external           *)
(* collaborators.  In eval mode the student is a deterministic function    *)
(* of its parameters (state dict) and the example; a state dict is         *)
(* identified with that function, so Params is the set of classifiers      *)
(* [Feats -> Classes].  In train mode (PGD, train) a forward pass yields   *)
(* an arbitrary prediction and a backward pass an arbitrary gradient sign. *)
(* An optimizer step yields an arbitrary state dict.                       *)
(* Accuracies are exact fractions [n, d].  Input                           *)
(* coordinates are integers in units of alpha = 0.001.  Loss values only   *)
(* reach the metrics writer and are not modelled.                          *)
(***************************************************************************)
EXTENDS Integers, Sequences, FiniteSets

\* ------------------------------------------------------------------ bounds
MaxEpochs == 2          \* args.epochs ranges over 0..MaxEpochs
FitBatch == 2           \* args.batch_size in a fit() run
MaxLen == 3             \* longest dataset handed to test() alone
MaxBatch == 4           \* largest batch size handed to test() alone

\* ------------------------------------------------------- program constants
NSplits == 5            \* KFoldGroupbyTrial(n_splits=5)
RunFirst == 4           \* for i in range(4, 5)
RunLast == 5
NumClasses == 2         \* DeepConvNet(num_classes=2)
PGDIters == 30          \* for _ in range(30)
Alpha == 1              \* alpha = 0.001, the unit of an input coordinate

Classes == 0..(NumClasses - 1)
Feats == 0..1
\* the state dicts, each identified with the eval-mode classifier it gives
Params == [Feats -> Classes]
\* the state dict of a fresh DeepConvNet
InitParam == [x \in Feats |-> 0]
\* the state dict in the files an earlier run left
StaleParam == [x \in Feats |-> 1]
\* model(b_x) in eval mode, per example
Forward(p) == p
Folds == 0..(NSplits - 1)
Signs == {0 - 1, 0, 1}
\* a file holds <<state dict>>; a missing file is <<>>
NoFile == <<>>
Saved(p) == <<p>>
Loaded(f) == f[1]

VARIABLES
    pc,             \* control position
    i,              \* __main__'s loop variable
    fit_calls,      \* number of fit() calls made by __main__
    epochs,         \* args.epochs
    batch_size,     \* args.batch_size
    params,         \* the student's state dict
    mode,           \* the student's mode: "train" or "eval"
    adam_t,         \* Adam's step count
    split_idx, epoch_id,
    test_data,      \* the dataset of the test loader
    best_test_acc, best_acc, test_acc,
    files,          \* save_dir: file name -> state dict, or NoFile
    files0,         \* save_dir as it was when the script started
    best_log,       \* the splits at whose end model_best.pth was written
    written,        \* names of the files torch.save wrote in this run
    acc_log,        \* writer's "Acc/Test" series: one value per finished fold
    train_log,      \* writer's "Loss/Train" series: the step indices logged
    fold_log,       \* this fold's epochs: [acc, saved, p] per epoch
    grad,           \* the student parameters' .grad: what has been accumulated
    consumed,       \* the .grad the last optimizer.step() read
    batch_idx,      \* train(): the batch being processed
    b_x,            \* train(): the clean batch, one coordinate per example
    pred,           \* train(): the teacher's pseudo-labels
    b_x_attack,     \* PGD(): the batch being perturbed
    k,              \* PGD(): iterations completed
    fwd_n,          \* PGD(): forward passes made in this call
    step_n,         \* PGD(): perturbation steps applied in this call
    output,         \* PGD(): the last forward pass's predictions, and the
                    \*        number of steps its input had received
    acc,            \* PGD(): the returned accuracy, in hundredths
    x_adv,          \* train(): the adversarial batch PGD returned
    loss            \* train(): the inputs and batch the loss was computed on

fitVars == <<i, fit_calls, epochs, split_idx, epoch_id, best_test_acc, best_acc,
             files, files0, best_log, written, acc_log, train_log, fold_log>>
pgdVars == <<b_x_attack, k, fwd_n, step_n, output>>
trainVars == <<batch_idx, b_x, pred, acc, x_adv, loss>>
vars == <<pc, batch_size, params, mode, adam_t, test_data, test_acc,
          grad, consumed, fitVars, pgdVars, trainVars>>

\* ---------------------------------------------------------------- fractions
Frac(n, d) == [n |-> n, d |-> d]
Zero == Frac(0, 1)
GT(a, b) == a.n * b.d > b.n * a.d
GE(a, b) == a.n * b.d >= b.n * a.d
EQ(a, b) == a.n * b.d = b.n * a.d

Min(a, b) == IF a < b THEN a ELSE b

\* ------------------------------------------------------------------- test()
Ex(x, y) == [x |-> x, y |-> y]
Examples == {Ex(x, y) : x \in Feats, y \in Classes}

\* len(data_loader) of a DataLoader with drop_last=False
LoaderLen(data, bs) == (Len(data) + bs - 1) \div bs

\* the j-th batch (1-based) of an unshuffled loader
Batch(data, bs, j) == SubSeq(data, (j - 1) * bs + 1, Min(j * bs, Len(data)))

\* (output.argmax(1) == b_y).sum() of one batch
CorrectIn(netp, b) == Cardinality({e \in 1..Len(b) : netp[b[e].x] = b[e].y})

RECURSIVE TestLoop(_, _, _, _, _)
TestLoop(netp, data, bs, j, correct_sample_num) ==
    IF j > LoaderLen(data, bs) THEN correct_sample_num
    ELSE TestLoop(netp, data, bs, j + 1,
                  correct_sample_num + CorrectIn(netp, Batch(data, bs, j)))

\* drops the last, partial batch (a loader built with drop_last=True)
RECURSIVE TestLoopDropLast(_, _, _, _, _)
TestLoopDropLast(netp, data, bs, j, correct_sample_num) ==
    IF j > Len(data) \div bs THEN correct_sample_num
    ELSE TestLoopDropLast(netp, data, bs, j + 1,
                  correct_sample_num + CorrectIn(netp, Batch(data, bs, j)))

testDropLast(netp, data, bs) ==
    Frac(TestLoopDropLast(netp, data, bs, 1, 0), Len(data))

\* test_accuracy = correct_sample_num / total_sample_num
test(netp, data, bs) == Frac(TestLoop(netp, data, bs, 1, 0), Len(data))

\* --------------------------------------------------------------- the dataset
\* kfold.split(attack_dataset): the test subset of each of the 5 splits
TestSplit(f) ==
    CASE f = 0 -> <<Ex(0, 0), Ex(1, 1)>>
      [] f = 1 -> <<Ex(0, 0), Ex(1, 0), Ex(1, 1)>>
      [] f = 2 -> <<Ex(0, 1)>>
      [] f = 3 -> <<Ex(1, 0), Ex(1, 0), Ex(0, 1)>>
      [] OTHER -> <<Ex(0, 0), Ex(0, 1)>>

\* the batches of a train loader: the inputs, one coordinate per example
\* (drop_last=False: the last batch is a partial one)
TrainLoader == << <<0, 5>>, <<3>> >>
TrainBatches == Len(TrainLoader)

\* pred = torch.argmax(teacher(b_x), dim=1): the frozen teacher's labels
Teacher(b) == [j \in 1..Len(b) |-> b[j] % NumClasses]

\* .grad of the student's parameters: the number of PGD backward passes and
\* the batches whose train() loss have been accumulated into it
NoGrad == [pgd |-> 0, loss |-> {}]

NoOutput == [pred |-> <<>>, steps |-> 0]
NoLoss == [clean |-> <<>>, adv |-> <<>>, batch |-> 0]

\* model_<split_idx>.pth and model_best.pth
FoldFile(f) == <<"model", <<"0", "1", "2", "3", "4">>[f + 1]>>
BestFile == <<"model", "best">>
FileNames == {FoldFile(f) : f \in Folds} \cup {BestFile}

\* save_dir as an earlier run that got through the first n folds left it
StaleDir(n, p) ==
    [name \in FileNames |->
        IF n > 0 /\ (name = BestFile \/ \E f \in 0..(n - 1) : name = FoldFile(f))
        THEN Saved(p) ELSE NoFile]

\* ------------------------------------------------------------------- Init
\* the locals of train() and PGD() before either is called
InitLocals ==
    /\ batch_idx = 0
    /\ b_x = <<>>
    /\ pred = <<>>
    /\ b_x_attack = <<>>
    /\ k = 0
    /\ fwd_n = 0
    /\ step_n = 0
    /\ output = NoOutput
    /\ acc = 0
    /\ x_adv = <<>>
    /\ loss = NoLoss

\* fit()'s state when fit() is not running
InitFitIdle ==
    /\ i = RunFirst
    /\ fit_calls = 0
    /\ epochs = 0
    /\ split_idx = 0
    /\ epoch_id = 0
    /\ best_test_acc = Zero
    /\ best_acc = Zero
    /\ files = [name \in FileNames |-> NoFile]
    /\ files0 = files
    /\ best_log = <<>>
    /\ written = {}
    /\ acc_log = <<>>
    /\ train_log = {}
    /\ fold_log = <<>>

InitFit ==
    /\ pc = "main"
    /\ i = RunFirst
    /\ fit_calls = 0
    /\ epochs \in 0..MaxEpochs
    /\ batch_size = FitBatch
    /\ params = InitParam
    /\ mode = "train"
    /\ adam_t = 0
    /\ split_idx = 0
    /\ epoch_id = 0
    /\ test_data = <<>>
    /\ best_test_acc = Zero
    /\ best_acc = Zero
    /\ test_acc = Zero
    /\ \E n \in 0..NSplits : files = StaleDir(n, StaleParam)
    /\ files0 = files
    /\ best_log = <<>>
    /\ written = {}
    /\ acc_log = <<>>
    /\ train_log = {}
    /\ fold_log = <<>>
    /\ grad = NoGrad
    /\ consumed = NoGrad
    /\ InitLocals

\* train() is entered with a fresh student and optimizer
InitTrain ==
    /\ pc = "t_call"
    /\ params = InitParam
    /\ mode = "eval"
    /\ adam_t = 0
    /\ grad = NoGrad
    /\ consumed = NoGrad
    /\ batch_size = FitBatch
    /\ test_data = <<>>
    /\ test_acc = Zero
    /\ InitFitIdle
    /\ InitLocals

\* test() is entered with any model, any non-empty dataset, any batch size
InitEval ==
    /\ pc = "e_call"
    /\ params \in Params
    /\ mode = "train"
    /\ adam_t = 0
    /\ grad = NoGrad
    /\ consumed = NoGrad
    /\ batch_size \in 1..MaxBatch
    /\ test_data \in UNION {[1..n -> Examples] : n \in 1..MaxLen}
    /\ test_acc = Zero
    /\ InitFitIdle
    /\ InitLocals

\* --------------------------------------------------------------- __main__
\* for i in range(4, 5): model = DeepConvNet(...); fit(...) up to line 112
MainCallFit ==
    /\ pc = "main"
    /\ i < RunLast
    /\ fit_calls' = fit_calls + 1
    /\ params' = InitParam
    /\ mode' = "train"
    /\ adam_t' = 0
    /\ best_acc' = Zero
    /\ split_idx' = 0
    /\ pc' = "fold"
    /\ UNCHANGED <<i, epochs, batch_size, files0, epoch_id, test_data,
                   best_test_acc, test_acc, files, written, acc_log,
                   train_log, fold_log>>
    /\ UNCHANGED <<pgdVars, trainVars>>
    /\ UNCHANGED <<grad, consumed>>
    /\ UNCHANGED best_log

MainDone ==
    /\ pc = "main"
    /\ i >= RunLast
    /\ pc' = "done"
    /\ UNCHANGED <<i, fit_calls, epochs, batch_size, files0, params, mode, adam_t,
                   split_idx, epoch_id, test_data, best_test_acc, best_acc,
                   test_acc, files, written, acc_log, train_log, fold_log>>
    /\ UNCHANGED <<pgdVars, trainVars>>
    /\ UNCHANGED <<grad, consumed>>
    /\ UNCHANGED best_log

\* -------------------------------------------------------------------- fit()
\* a fold loop that builds a fresh student and optimizer for every split
FoldStartFresh ==
    /\ pc = "fold"
    /\ split_idx < NSplits
    /\ test_data' = TestSplit(split_idx)
    /\ best_test_acc' = Zero
    /\ epoch_id' = 0
    /\ fold_log' = <<>>
    /\ params' = InitParam
    /\ adam_t' = 0
    /\ pc' = "epoch"
    /\ UNCHANGED <<i, fit_calls, epochs, batch_size, files0, mode,
                   split_idx, best_acc, test_acc, files, written, acc_log,
                   train_log, best_log, grad, consumed, pgdVars, trainVars>>

\* the fold loop's head: the next split, its loaders, best_test_acc = 0
FoldStart ==
    /\ pc = "fold"
    /\ split_idx < NSplits
    /\ test_data' = TestSplit(split_idx)
    /\ best_test_acc' = Zero
    /\ epoch_id' = 0
    /\ fold_log' = <<>>
    /\ pc' = "epoch"
    /\ UNCHANGED <<i, fit_calls, epochs, batch_size, files0, params, mode, adam_t,
                   split_idx, best_acc, test_acc, files, written, acc_log,
                   train_log>>
    /\ UNCHANGED <<pgdVars, trainVars>>
    /\ UNCHANGED <<grad, consumed>>
    /\ UNCHANGED best_log

\* a fold loop that may stop after any split
FitReturnEarly ==
    /\ pc = "fold"
    /\ split_idx >= 1
    /\ i' = i + 1
    /\ pc' = "main"
    /\ UNCHANGED <<fit_calls, epochs, batch_size, files0, params, mode,
                   adam_t, split_idx, epoch_id, test_data, best_test_acc,
                   best_acc, test_acc, files, written, acc_log, train_log,
                   fold_log, best_log, grad, consumed, pgdVars, trainVars>>

\* the fold loop is exhausted: fit() returns, __main__'s loop steps
FitReturn ==
    /\ pc = "fold"
    /\ split_idx >= NSplits
    /\ i' = i + 1
    /\ pc' = "main"
    /\ UNCHANGED <<fit_calls, epochs, batch_size, files0, params, mode, adam_t,
                   split_idx, epoch_id, test_data, best_test_acc, best_acc,
                   test_acc, files, written, acc_log, train_log, fold_log>>
    /\ UNCHANGED <<pgdVars, trainVars>>
    /\ UNCHANGED <<grad, consumed>>
    /\ UNCHANGED best_log

\* train(...) of one epoch, and the writer's "Loss/Train" entry
FitTrain ==
    /\ pc = "epoch"
    /\ epoch_id < epochs
    /\ mode' = "train"
    /\ params' \in Params
    /\ adam_t' = adam_t + TrainBatches
    /\ grad' = [pgd |-> 0, loss |-> {TrainBatches - 1}]
    /\ consumed' = grad'
    /\ train_log' = train_log \cup {split_idx * epochs + epoch_id}
    /\ pc' = "test"
    /\ UNCHANGED <<i, fit_calls, epochs, batch_size, files0, split_idx, epoch_id,
                   test_data, best_test_acc, best_acc, test_acc, files,
                   written, acc_log, fold_log>>
    /\ UNCHANGED <<pgdVars, trainVars>>
    /\ UNCHANGED best_log

\* test(...) of one epoch
FitTest ==
    /\ pc = "test"
    /\ mode' = "eval"
    /\ test_acc' = test(Forward(params), test_data, batch_size)
    /\ pc' = "gate"
    /\ UNCHANGED <<i, fit_calls, epochs, batch_size, files0, params, adam_t,
                   split_idx, epoch_id, test_data, best_test_acc, best_acc,
                   files, written, acc_log, train_log, fold_log>>
    /\ UNCHANGED <<pgdVars, trainVars>>
    /\ UNCHANGED <<grad, consumed>>
    /\ UNCHANGED best_log

\* if test_acc >= best_test_acc (a non-strict gate)
SaveGateGE == GE(test_acc, best_test_acc)

\* if test_acc > best_test_acc
SaveGate == GT(test_acc, best_test_acc)

\* the gate taken: best_test_acc = test_acc; torch.save(model_<split_idx>.pth)
SaveCheckpoint ==
    /\ pc = "gate"
    /\ SaveGate
    /\ best_test_acc' = test_acc
    /\ files' = [files EXCEPT ![FoldFile(split_idx)] = Saved(params)]
    /\ written' = written \cup {FoldFile(split_idx)}
    /\ fold_log' = Append(fold_log, [acc |-> test_acc, saved |-> TRUE, p |-> params])
    /\ epoch_id' = epoch_id + 1
    /\ pc' = "epoch"
    /\ UNCHANGED <<i, fit_calls, epochs, batch_size, files0, params, mode, adam_t,
                   split_idx, test_data, best_acc, test_acc, acc_log,
                   train_log>>
    /\ UNCHANGED <<pgdVars, trainVars>>
    /\ UNCHANGED <<grad, consumed>>
    /\ UNCHANGED best_log

\* the gate not taken
SkipCheckpoint ==
    /\ pc = "gate"
    /\ ~SaveGate
    /\ fold_log' = Append(fold_log, [acc |-> test_acc, saved |-> FALSE, p |-> params])
    /\ epoch_id' = epoch_id + 1
    /\ pc' = "epoch"
    /\ UNCHANGED <<i, fit_calls, epochs, batch_size, files0, params, mode, adam_t,
                   split_idx, test_data, best_test_acc, best_acc, test_acc,
                   files, written, acc_log, train_log>>
    /\ UNCHANGED <<pgdVars, trainVars>>
    /\ UNCHANGED <<grad, consumed>>
    /\ UNCHANGED best_log

\* the epoch loop is exhausted
EpochsDone ==
    /\ pc = "epoch"
    /\ epoch_id >= epochs
    /\ pc' = "reload"
    /\ UNCHANGED <<i, fit_calls, epochs, batch_size, files0, params, mode, adam_t,
                   split_idx, epoch_id, test_data, best_test_acc, best_acc,
                   test_acc, files, written, acc_log, train_log, fold_log>>
    /\ UNCHANGED <<pgdVars, trainVars>>
    /\ UNCHANGED <<grad, consumed>>
    /\ UNCHANGED best_log

\* a fold end that evaluates the student as the last epoch left it
ReloadSkipped ==
    /\ pc = "reload"
    /\ files[FoldFile(split_idx)] # NoFile
    /\ pc' = "retest"
    /\ UNCHANGED <<i, fit_calls, epochs, batch_size, files0, params, mode,
                   adam_t, split_idx, epoch_id, test_data, best_test_acc,
                   best_acc, test_acc, files, written, acc_log, train_log,
                   fold_log, best_log, grad, consumed, pgdVars, trainVars>>

\* model.load_state_dict(torch.load(model_<split_idx>.pth))
Reload ==
    /\ pc = "reload"
    /\ files[FoldFile(split_idx)] # NoFile
    /\ params' = Loaded(files[FoldFile(split_idx)])
    /\ pc' = "retest"
    /\ UNCHANGED <<i, fit_calls, epochs, batch_size, files0, mode, adam_t,
                   split_idx, epoch_id, test_data, best_test_acc, best_acc,
                   test_acc, files, written, acc_log, train_log, fold_log>>
    /\ UNCHANGED <<pgdVars, trainVars>>
    /\ UNCHANGED <<grad, consumed>>
    /\ UNCHANGED best_log

\* a reload whose failure is caught and ignored
ReloadFailsIgnored ==
    /\ pc = "reload"
    /\ files[FoldFile(split_idx)] = NoFile
    /\ pc' = "retest"
    /\ UNCHANGED <<i, fit_calls, epochs, batch_size, files0, params, mode,
                   adam_t, split_idx, epoch_id, test_data, best_test_acc,
                   best_acc, test_acc, files, written, acc_log, train_log,
                   fold_log, best_log, grad, consumed, pgdVars, trainVars>>

\* torch.load raises FileNotFoundError; nothing catches it
ReloadFails ==
    /\ pc = "reload"
    /\ files[FoldFile(split_idx)] = NoFile
    /\ pc' = "crashed"
    /\ UNCHANGED <<i, fit_calls, epochs, batch_size, files0, params, mode, adam_t,
                   split_idx, epoch_id, test_data, best_test_acc, best_acc,
                   test_acc, files, written, acc_log, train_log, fold_log>>
    /\ UNCHANGED <<pgdVars, trainVars>>
    /\ UNCHANGED <<grad, consumed>>
    /\ UNCHANGED best_log

\* _, test_acc = test(model, test_loader, loss_fn); writer "Acc/Test"
ReTest ==
    /\ pc = "retest"
    /\ mode' = "eval"
    /\ test_acc' = test(Forward(params), test_data, batch_size)
    /\ acc_log' = Append(acc_log, test_acc')
    /\ pc' = "promote"
    /\ UNCHANGED <<i, fit_calls, epochs, batch_size, files0, params, adam_t,
                   split_idx, epoch_id, test_data, best_test_acc, best_acc,
                   files, written, train_log, fold_log>>
    /\ UNCHANGED <<pgdVars, trainVars>>
    /\ UNCHANGED <<grad, consumed>>
    /\ UNCHANGED best_log

\* if test_acc >= best_acc (a non-strict gate)
PromoteGateGE == GE(test_acc, best_acc)

\* if test_acc > best_acc
PromoteGate == GT(test_acc, best_acc)

\* best_acc = test_acc; torch.save(model_best.pth); next split
Promote ==
    /\ pc = "promote"
    /\ PromoteGate
    /\ best_acc' = test_acc
    /\ files' = [files EXCEPT ![BestFile] = Saved(params)]
    /\ best_log' = Append(best_log, split_idx)
    /\ written' = written \cup {BestFile}
    /\ split_idx' = split_idx + 1
    /\ pc' = "fold"
    /\ UNCHANGED <<i, fit_calls, epochs, batch_size, files0, params, mode, adam_t,
                   epoch_id, test_data, best_test_acc, test_acc, acc_log,
                   train_log, fold_log>>
    /\ UNCHANGED <<pgdVars, trainVars>>
    /\ UNCHANGED <<grad, consumed>>

NoPromote ==
    /\ pc = "promote"
    /\ ~PromoteGate
    /\ split_idx' = split_idx + 1
    /\ pc' = "fold"
    /\ UNCHANGED <<i, fit_calls, epochs, batch_size, files0, params, mode, adam_t,
                   epoch_id, test_data, best_test_acc, best_acc, test_acc,
                   files, written, acc_log, train_log, fold_log>>
    /\ UNCHANGED <<pgdVars, trainVars>>
    /\ UNCHANGED <<grad, consumed>>
    /\ UNCHANGED best_log

\* ------------------------------------------------------------------ PGD()
AbsVal(a) == IF a < 0 THEN 0 - a ELSE a

\* round(n / d, 2) in hundredths (ties, which no batch of the model's
\* lengths produces, to even)
Round2(n, d) ==
    LET q == (100 * n) \div d
        r == (100 * n) % d
    IN  IF 2 * r > d \/ (2 * r = d /\ q % 2 = 1) THEN q + 1 ELSE q

\* (torch.argmax(pred_prob, dim=1) == b_y).sum().item()
AccN(out, labels) ==
    Cardinality({j \in 1..Len(labels) : out[j] = labels[j]})

\* PGD()'s locals cease to exist when it returns
PGDLocalsFreed ==
    /\ b_x_attack' = <<>>
    /\ k' = 0
    /\ fwd_n' = 0
    /\ step_n' = 0
    /\ output' = NoOutput

\* PGD(model, b_x, pred) is entered: lines 23-27
PGDStart ==
    /\ pc = "pgd_call"
    /\ b_x_attack' = b_x
    /\ k' = 0
    /\ fwd_n' = 0
    /\ step_n' = 0
    /\ pc' = "pgd_loop"
    /\ UNCHANGED <<batch_size, params, mode, adam_t, test_data, test_acc,
                   grad, consumed, output, fitVars, trainVars>>

\* output = model(b_x_attack): any prediction, the student being in train mode
PGDForward ==
    /\ pc = "pgd_loop"
    /\ k < PGDIters
    /\ \E o \in [1..Len(b_x_attack) -> Classes] :
          output' = [pred |-> o, steps |-> step_n]
    /\ fwd_n' = fwd_n + 1
    /\ pc' = "pgd_back"
    /\ UNCHANGED <<batch_size, params, mode, adam_t, test_data, test_acc,
                   grad, consumed, b_x_attack, k, step_n, fitVars, trainVars>>

\* a PGD that also steps the student's parameters along their gradient
PGDStepOnParams ==
    /\ pc = "pgd_back"
    /\ grad' = [grad EXCEPT !.pgd = @ + 1]
    /\ \E g \in [1..Len(b_x_attack) -> Signs] :
          b_x_attack' = [j \in 1..Len(b_x_attack) |-> b_x_attack[j] - Alpha * g[j]]
    /\ params' \in Params
    /\ step_n' = step_n + 1
    /\ k' = k + 1
    /\ pc' = "pgd_loop"
    /\ UNCHANGED <<batch_size, mode, adam_t, test_data, test_acc,
                   consumed, fwd_n, output, fitVars, trainVars>>

\* loss.backward() accumulates into the parameters' .grad and yields the
\* input's gradient, of any sign; b_x_attack -= alpha * grad.sign()
PGDStep ==
    /\ pc = "pgd_back"
    /\ grad' = [grad EXCEPT !.pgd = @ + 1]
    /\ \E g \in [1..Len(b_x_attack) -> Signs] :
          b_x_attack' = [j \in 1..Len(b_x_attack) |-> b_x_attack[j] - Alpha * g[j]]
    /\ step_n' = step_n + 1
    /\ k' = k + 1
    /\ pc' = "pgd_loop"
    /\ UNCHANGED <<batch_size, params, mode, adam_t, test_data, test_acc,
                   consumed, fwd_n, output, fitVars, trainVars>>

\* a PGD that measures the accuracy on the batch it returns
PGDReturnFresh ==
    /\ pc = "pgd_loop"
    /\ k >= PGDIters
    /\ \E o \in [1..Len(b_x_attack) -> Classes] :
          acc' = Round2(AccN(o, pred), Len(pred))
    /\ x_adv' = b_x_attack
    /\ PGDLocalsFreed
    /\ pc' = "t_loss"
    /\ UNCHANGED <<batch_size, params, mode, adam_t, test_data, test_acc,
                   grad, consumed, fitVars, batch_idx, b_x, pred, loss>>

\* lines 36-39: the accuracy of the last output; x_adv, acc = PGD(...)
PGDReturn ==
    /\ pc = "pgd_loop"
    /\ k >= PGDIters
    /\ acc' = Round2(AccN(output.pred, pred), Len(pred))
    /\ x_adv' = b_x_attack
    /\ PGDLocalsFreed
    /\ pc' = "t_loss"
    /\ UNCHANGED <<batch_size, params, mode, adam_t, test_data, test_acc,
                   grad, consumed, fitVars, batch_idx, b_x, pred, loss>>

\* ---------------------------------------------------------------- train()
\* the loop body's locals are rebound by the next iteration before any read
BatchLocalsDead ==
    /\ b_x' = <<>>
    /\ pred' = <<>>
    /\ acc' = 0
    /\ x_adv' = <<>>
    /\ loss' = NoLoss

\* lines 49-52
TrainStart ==
    /\ pc = "t_call"
    /\ mode' = "train"
    /\ batch_idx' = 0
    /\ pc' = "t_batch"
    /\ UNCHANGED <<batch_size, params, adam_t, test_data, test_acc,
                   grad, consumed, fitVars, pgdVars, b_x, pred, acc, x_adv,
                   loss>>

\* the next batch and the teacher's pseudo-labels: lines 53-57
TrainTeacher ==
    /\ pc = "t_batch"
    /\ batch_idx < TrainBatches
    /\ b_x' = TrainLoader[batch_idx + 1]
    /\ pred' = Teacher(b_x')
    /\ pc' = "pgd_call"
    /\ UNCHANGED <<batch_size, params, mode, adam_t, test_data, test_acc,
                   grad, consumed, fitVars, pgdVars, batch_idx, acc, x_adv,
                   loss>>

\* the loss of the clean and the adversarial batch: lines 59-61
TrainLoss ==
    /\ pc = "t_loss"
    /\ loss' = [clean |-> b_x, adv |-> x_adv, batch |-> batch_idx]
    /\ pc' = "t_zero"
    /\ UNCHANGED <<batch_size, params, mode, adam_t, test_data, test_acc,
                   grad, consumed, fitVars, pgdVars, batch_idx, b_x, pred,
                   acc, x_adv>>

\* a train() that never zeroes the gradients
TrainZeroGradMissing ==
    /\ pc = "t_zero"
    /\ pc' = "t_backward"
    /\ UNCHANGED <<batch_size, params, mode, adam_t, test_data, test_acc,
                   grad, consumed, fitVars, pgdVars, trainVars>>

\* optimizer.zero_grad()
TrainZeroGrad ==
    /\ pc = "t_zero"
    /\ grad' = NoGrad
    /\ pc' = "t_backward"
    /\ UNCHANGED <<batch_size, params, mode, adam_t, test_data, test_acc,
                   consumed, fitVars, pgdVars, trainVars>>

\* loss.backward()
TrainBackward ==
    /\ pc = "t_backward"
    /\ grad' = [grad EXCEPT !.loss = @ \cup {loss.batch}]
    /\ pc' = "t_step"
    /\ UNCHANGED <<batch_size, params, mode, adam_t, test_data, test_acc,
                   consumed, fitVars, pgdVars, trainVars>>

\* optimizer.step(), and the loop's step: lines 65-68
TrainStep ==
    /\ pc = "t_step"
    /\ consumed' = grad
    /\ params' \in Params
    /\ adam_t' = adam_t + 1
    /\ batch_idx' = batch_idx + 1
    /\ BatchLocalsDead
    /\ pc' = "t_batch"
    /\ UNCHANGED <<batch_size, mode, test_data, test_acc, grad, fitVars,
                   pgdVars>>

\* the loader is exhausted: lines 69-70
TrainReturn ==
    /\ pc = "t_batch"
    /\ batch_idx >= TrainBatches
    /\ pc' = "t_done"
    /\ UNCHANGED <<batch_size, params, mode, adam_t, test_data, test_acc,
                   grad, consumed, fitVars, pgdVars, trainVars>>

\* ------------------------------------------------------- test() on its own
EvalTest ==
    /\ pc = "e_call"
    /\ mode' = "eval"
    /\ test_acc' = test(Forward(params), test_data, batch_size)
    /\ pc' = "e_done"
    /\ UNCHANGED <<batch_size, params, adam_t, test_data, grad, consumed,
                   fitVars, pgdVars, trainVars>>

\* ------------------------------------------------------------------- Spec
Init == InitFit \/ InitTrain \/ InitEval

Next ==
    \/ MainCallFit
    \/ MainDone
    \/ FoldStart
    \/ FitReturn
    \/ FitTrain
    \/ FitTest
    \/ SaveCheckpoint
    \/ SkipCheckpoint
    \/ EpochsDone
    \/ Reload
    \/ ReloadFails
    \/ ReTest
    \/ Promote
    \/ NoPromote
    \/ TrainStart
    \/ TrainTeacher
    \/ PGDStart
    \/ PGDForward
    \/ PGDStep
    \/ PGDReturn
    \/ TrainLoss
    \/ TrainZeroGrad
    \/ TrainBackward
    \/ TrainStep
    \/ TrainReturn
    \/ EvalTest

Spec == Init /\ [][Next]_vars

\* ====================================================================
\* Properties
\* ====================================================================
InFold == pc \in {"epoch", "test", "gate", "reload", "retest", "promote", "crashed"}
FoldFiles == {FoldFile(f) : f \in Folds}

\* the fold's running best before epoch e (1-based): the accuracy of the
\* last epoch before e that saved, or 0
RECURSIVE BestBefore(_)
BestBefore(e) ==
    IF e <= 1 THEN Zero
    ELSE IF fold_log[e - 1].saved THEN fold_log[e - 1].acc
    ELSE BestBefore(e - 1)

SavedEpochs == {e \in 1..Len(fold_log) : fold_log[e].saved}

\* C1: within a fold, model_<fold>.pth is written at an epoch exactly when
\* the epoch's test accuracy is strictly above the fold's running best (0 at
\* the fold's start, the epoch's accuracy after each write); the accuracies
\* that trigger a write are strictly increasing, and the file holds the
\* state dict of the last epoch that wrote.
C1_CheckpointGate ==
    InFold =>
      /\ \A e \in 1..Len(fold_log) :
            fold_log[e].saved <=> GT(fold_log[e].acc, BestBefore(e))
      /\ \A a, b \in SavedEpochs : a < b => GT(fold_log[b].acc, fold_log[a].acc)
      /\ pc # "gate" => best_test_acc = BestBefore(Len(fold_log) + 1)
      /\ (FoldFile(split_idx) \in written) <=> (SavedEpochs # {})
      /\ \A e \in SavedEpochs :
            (\A l \in SavedEpochs : l <= e) =>
                files[FoldFile(split_idx)] = Saved(fold_log[e].p)
      /\ SavedEpochs = {} => files[FoldFile(split_idx)] = files0[FoldFile(split_idx)]

\* an epoch whose accuracy equals the running best did not write
C1_Witness ==
    /\ pc = "epoch"
    /\ Len(fold_log) = 2
    /\ fold_log[1].saved
    /\ ~fold_log[2].saved
    /\ EQ(fold_log[2].acc, fold_log[1].acc)
    /\ fold_log[2].p # fold_log[1].p

\* C2: after a fold's epochs, the accuracy of the reloaded checkpoint on the
\* fold's test split is at least every test accuracy of the fold's epochs.
C2_ReloadedIsBest ==
    pc = "promote" =>
        \A e \in 1..Len(fold_log) : GE(test_acc, fold_log[e].acc)

\* the best epoch was not the last one: the reload changed the student
C2_Witness ==
    /\ pc = "promote"
    /\ Len(fold_log) = 2
    /\ GT(fold_log[1].acc, fold_log[2].acc)
    /\ EQ(test_acc, fold_log[1].acc)

\* the folds whose final accuracy has been compared with best_acc
Completed == IF pc = "promote" THEN Len(acc_log) - 1 ELSE Len(acc_log)

\* C3: model_best.pth is written at the end of a fold only when the fold's
\* final accuracy is strictly above the final accuracy of every earlier
\* fold, and best_acc is the maximum of 0 and the final accuracies of the
\* folds completed so far.
C3_GlobalBest ==
    /\ \A b \in 1..Len(best_log) :
          /\ best_log[b] + 1 <= Len(acc_log)
          /\ GT(acc_log[best_log[b] + 1], Zero)
          /\ \A j \in 1..best_log[b] : GT(acc_log[best_log[b] + 1], acc_log[j])
    /\ \A j \in 1..Completed : GE(best_acc, acc_log[j])
    /\ \/ best_acc = Zero
       \/ \E j \in 1..Completed : best_acc = acc_log[j]
    /\ (BestFile \in written) <=> (best_log # <<>>)

\* model_best.pth was overwritten once, and a later fold that only equalled
\* the best left it alone
C3_Witness ==
    /\ pc = "fold"
    /\ Len(best_log) = 2
    /\ Len(acc_log) = 4
    /\ best_log[2] = 2
    /\ EQ(acc_log[4], acc_log[3])

\* the examples of the dataset the model classifies as labelled
CorrectSet(netp, data) == {e \in 1..Len(data) : netp[data[e].x] = data[e].y}

\* C4: for a non-empty test split and any batch size, test() returns
\* (correctly classified examples) / (examples of the split), which lies in
\* [0, 1] and is the same for every batch size.
C4_Accuracy ==
    pc = "e_done" =>
      /\ test_acc = Frac(Cardinality(CorrectSet(Forward(params), test_data)),
                         Len(test_data))
      /\ GE(test_acc, Zero)
      /\ GE(Frac(1, 1), test_acc)
      /\ \A bs \in 1..(MaxBatch + 1) :
            test(Forward(params), test_data, bs) = test_acc
      /\ batch_size > Len(test_data) => LoaderLen(test_data, batch_size) = 1

\* several batches, the last a partial one, some examples right, some wrong
C4_Witness ==
    /\ pc = "e_done"
    /\ Len(test_data) = 3
    /\ batch_size = 2
    /\ test_acc = Frac(1, 3)
    /\ CorrectSet(Forward(params), test_data) = {3}

\* C5 as stated: only the optimizer step of train() changes the student's
\* parameters.
C5_OnlyOptimizer ==
    [][params' # params => pc \in {"t_step", "epoch"}]_vars

\* C5, amended: the student's parameters change only in the optimizer step
\* of train() and in fit()'s reload of the fold's checkpoint; PGD(), test()
\* and the rest of fit() leave them as they are.
C5_OptimizerOrReload ==
    [][params' # params => pc \in {"t_step", "epoch", "reload"}]_vars

\* the reload replaced the last epoch's parameters by the checkpoint's
C5_Witness ==
    /\ pc = "retest"
    /\ Len(fold_log) = 2
    /\ params # fold_log[2].p
    /\ params = fold_log[1].p

\* the splits train() has run on
TrainedSplits == {s \div epochs : s \in train_log}

NothingToReload ==
    /\ \A e \in 1..Len(fold_log) : ~GT(fold_log[e].acc, Zero)
    /\ files0[FoldFile(split_idx)] = NoFile

\* C7: when the fold's checkpoint file is missing at the end of the fold's
\* epochs (no epoch's accuracy was above 0 and no earlier run left the
\* file), the reload ends the process: no re-evaluation, no change to
\* model_best.pth or best_acc, no later fold.
C7_MissingCheckpointFatal ==
    [][ /\ (pc = "reload" /\ files[FoldFile(split_idx)] = NoFile) =>
              /\ pc' = "crashed"
              /\ UNCHANGED <<files, best_acc, best_log, acc_log, test_acc,
                             written, split_idx, train_log, params>>
        /\ pc # "crashed"
        /\ (pc' = "reload" /\ NothingToReload') =>
              files'[FoldFile(split_idx')] = NoFile
      ]_vars

\* the process ended in a later fold, all of whose epochs had accuracy 0
C7_Witness ==
    /\ pc = "crashed"
    /\ split_idx = 2
    /\ Len(fold_log) = 2
    /\ Len(acc_log) = 2
    /\ best_log # <<>>

\* C8: PGD makes exactly 30 iterations, each one forward pass followed by
\* one step that moves every coordinate by at most alpha; the accuracy it
\* returns is that of the 30th forward pass, whose input had received 29
\* steps, and the batch it returns has received 30.
C8_PGD ==
    [][ /\ pc = "pgd_loop" /\ pc' = "pgd_back" =>
              /\ fwd_n = step_n
              /\ fwd_n' = fwd_n + 1
              /\ output'.steps = fwd_n
        /\ pc = "pgd_back" =>
              /\ pc' = "pgd_loop"
              /\ step_n' = step_n + 1
              /\ step_n' = fwd_n'
              /\ Len(b_x_attack') = Len(b_x_attack)
              /\ \A j \in 1..Len(b_x_attack) :
                    AbsVal(b_x_attack'[j] - b_x_attack[j]) <= Alpha
        /\ pc' = "t_loss" =>
              /\ fwd_n = PGDIters
              /\ step_n = PGDIters
              /\ output.steps = PGDIters - 1
              /\ acc' = Round2(AccN(output.pred, pred), Len(pred))
              /\ x_adv' = b_x_attack
              /\ \A j \in 1..Len(b_x) :
                    AbsVal(x_adv'[j] - b_x[j]) <= PGDIters * Alpha
      ]_vars

\* PGD returned a batch moved by all 30 steps in one coordinate, with an
\* accuracy of one half
C8_Witness ==
    /\ pc = "t_loss"
    /\ batch_idx = 0
    /\ x_adv[1] = b_x[1] - PGDIters * Alpha
    /\ x_adv[2] = b_x[2] + 1
    /\ acc = 50

\* C9: per batch the steps come in the order pseudo-labels, PGD, loss, zero
\* gradients, backpropagate, optimizer step; one optimizer step per batch;
\* the gradient that step reads is the gradient of this batch's loss alone:
\* the 30 PGD backward passes and the earlier batches have been zeroed.
C9_OneStepPerBatch ==
    /\ pc = "pgd_call" => pred = Teacher(b_x) /\ b_x = TrainLoader[batch_idx + 1]
    /\ pc = "t_loss" => Len(x_adv) = Len(b_x) /\ loss = NoLoss
    /\ pc \in {"t_loss", "t_zero"} =>
          /\ grad.pgd = PGDIters
          /\ grad.loss = (IF batch_idx = 0 THEN {} ELSE {batch_idx - 1})
    /\ pc \in {"t_zero", "t_backward", "t_step"} =>
          loss = [clean |-> b_x, adv |-> x_adv, batch |-> batch_idx]
    /\ pc = "t_backward" => grad = NoGrad
    /\ pc = "t_step" => grad = [pgd |-> 0, loss |-> {batch_idx}]
    /\ pc \in {"t_batch", "pgd_call", "pgd_loop", "pgd_back", "t_loss",
               "t_zero", "t_backward", "t_step", "t_done"} =>
          /\ adam_t = batch_idx
          /\ batch_idx > 0 => consumed = [pgd |-> 0, loss |-> {batch_idx - 1}]

\* the second batch's optimizer step is about to read its gradient
C9_Witness ==
    /\ pc = "t_step"
    /\ batch_idx = 1
    /\ consumed = [pgd |-> 0, loss |-> {0}]
    /\ grad = [pgd |-> 0, loss |-> {1}]

\* C10: the student and the optimizer are created once per fit() call and
\* carried from fold to fold: a later fold starts training from the state
\* dict of the previous fold's checkpoint, with best_test_acc back at 0.
C10_CarriedOver ==
    (pc = "epoch" /\ epoch_id = 0 /\ split_idx > 0) =>
        /\ files[FoldFile(split_idx - 1)] # NoFile
        /\ params = Loaded(files[FoldFile(split_idx - 1)])
        /\ best_test_acc = Zero
        /\ adam_t = split_idx * epochs * TrainBatches
        /\ fit_calls = 1

\* a later fold starts from a trained state dict, not a fresh student
C10_Witness ==
    /\ pc = "epoch"
    /\ epoch_id = 0
    /\ split_idx = 3
    /\ epochs = 2
    /\ FoldFile(2) \in written
    /\ params # InitParam
=============================================================================
